---- MODULE Spec2Model ----
(***************************************************************************)
(* Model of scripts/validate-links.js: the link validator's batch          *)
(* scheduler (main), concurrency limiter (pLimit), start-time throttle     *)
(* (makeStartThrottler) and redirect/method resolver (checkUrl).           *)
(*                                                                         *)
(* An action is a callback of the event loop (the start of main, a timer,  *)
(* the answer to a request) together with the promise reactions that       *)
(* follow from it; the throttle's waitForTurn callback is an action of its *)
(* own.  Time is in milliseconds and passes between any two actions.       *)
(***************************************************************************)
EXTENDS Integers, Sequences, FiniteSets, TLC

(***************************************************************************)
(* Tunables (validate-links.js:21-29).  Each is read from the environment, *)
(* the values here are one such configuration.                             *)
(***************************************************************************)
MAX_CONCURRENCY == 2
MAX_REDIRECTS == 1
BATCH_SIZE == 3
BATCH_PAUSE_MS == 100
MIN_START_INTERVAL_MS == 100
\* Math.floor(Math.random() * 50): the jitter is one of 0 .. JITTER_RANGE - 1
JITTER_RANGE == 50

(***************************************************************************)
(* Bounds of the model.                                                    *)
(***************************************************************************)
\* the longest record sequence
MaxRecords == 4
\* Date.now() when the script starts (any value beyond MIN_START_INTERVAL_MS)
Epoch == 1000
\* the clock is observed every TickMs, up to Epoch + Horizon
TickMs == 100
Horizon == 300

\* the longest record name
MaxNameLen == 4
\* the callers of a throttle on its own
MaxCallers == 3

Min(a, b) == IF a <= b THEN a ELSE b
Max(a, b) == IF a >= b THEN a ELSE b

(***************************************************************************)
(* Inputs.                                                                 *)
(***************************************************************************)
\* galaxies.json: unreadable or not JSON, a JSON value whose `galaxies` is
\* not an array, or an array of records (a record is named by its position)
Datasets ==
    {[kind |-> "unreadable", galaxies |-> <<>>], [kind |-> "notArray", galaxies |-> <<>>]}
    \cup {[kind |-> "array", galaxies |-> [k \in 1..n |-> k]] : n \in 0..MaxRecords}

\* Location headers: absent, a relative reference, a reference that
\* new URL() rejects, a reference to a scheme that is neither http nor https
NoLocation == "none"
Locations == {"/Other_Page", "http://[", "ftp://mirror/x"}

\* what one requestOnce resolves with: { ok: false, error } or
\* { ok: true, statusCode, headers }
\* (error stands for error.message, "" when the error carries none)
Answers(errors, statuses, locations) ==
    {[ok |-> FALSE, error |-> e, statusCode |-> 0, location |-> NoLocation] : e \in errors}
    \cup {[ok |-> TRUE, error |-> "", statusCode |-> s, location |-> NoLocation] :
            s \in statuses}
    \cup {[ok |-> TRUE, error |-> "", statusCode |-> 301, location |-> l] : l \in locations}

\* the answers of a stand-alone checkUrl call, and those of a whole run (one
\* answer for each way checkUrl goes on: return valid, return invalid, fall
\* back to GET, follow a redirect, throw)
Responses == Answers({"socket hang up", "timeout", ""}, {200, 301, 403, 404, 405}, Locations)
RunResponses == Answers({"socket hang up"}, {200, 405}, {"/Other_Page", "ftp://mirror/x"})

VARIABLES
    dataset,     \* the content of galaxies.json
    pc,          \* where main is
    exitCode,    \* the process's exit status, -1 while it runs
    i,           \* main's loop index
    completed,   \* main's progress counter
    results,     \* main's results array
    limiter,     \* pLimit's closure: activeCount, queue
    throttle,    \* makeStartThrottler's closure: lastStart, the promise chain
    task,        \* per record, the task main handed to the limiter
    now,         \* Date.now()
    pauseWake,   \* when the inter-batch sleep elapses
    lastRequest, \* time of the latest requestOnce call, -1 before the first
    trace        \* the probes of a stand-alone checkUrl call and their answers

vars == <<dataset, pc, exitCode, i, completed, results, limiter, throttle, task,
          now, pauseWake, lastRequest, trace>>

(***************************************************************************)
(* checkUrl (validate-links.js:52-87).  A URL is the number of redirects   *)
(* that led to it and its scheme; the validator never looks at the rest.   *)
(***************************************************************************)
\* buildUrlFromName: BASE + suffix, an https URL nothing redirected to yet
buildUrlFromName == [hops |-> 0, scheme |-> "https"]

\* new URL(loc, currentUrl) throws
UrlThrows(loc) == loc = "http://["

\* new URL(loc, currentUrl).toString()
ResolveUrl(loc, currentUrl) ==
    [hops |-> currentUrl.hops + 1,
     scheme |-> IF loc = "ftp://mirror/x" THEN "ftp" ELSE currentUrl.scheme]

\* `HTTP ${status}`
HttpReason(status) == "HTTP " \o ToString(status)

\* the error's message dropped
ErrorReasonGeneric(last) == "request failed"

\* last.error?.message || 'request failed'
ErrorReason(last) == IF last.error # "" THEN last.error ELSE "request failed"

\* lib.request(url, ...) inside requestOnce's executor throws, so that the
\* promise rejects: node's http.request accepts only its own protocol
RequestThrows(url) == url.scheme \notin {"http", "https"}

NoResult == [url |-> buildUrlFromName, valid |-> FALSE, reason |-> "pending"]
Return(url, valid, reason) ==
    [op |-> "return", result |-> [url |-> url, valid |-> valid, reason |-> reason],
     c |-> [url |-> url, redirects |-> 0, method |-> "HEAD"]]
Continue(c) == [op |-> "continue", result |-> NoResult, c |-> c]

\* let currentUrl = url; let redirects = 0; let method = 'HEAD'
CheckUrlInit(url) == [url |-> url, redirects |-> 0, method |-> "HEAD"]

\* the fallback without the test of the method
FallsBackAlways(status, method) == status = 405 \/ status = 403

\* if (status === 405 || status === 403) { if (method === 'HEAD') ...
FallsBackToGet(status, method) == (status = 405 \/ status = 403) /\ method = "HEAD"

\* if (status >= 300 && status < 400 && last.headers && last.headers.location)
IsRedirect(last) ==
    last.statusCode >= 300 /\ last.statusCode < 400 /\ last.location # NoLocation

\* the redirect followed with the method left as it was
FollowRedirectSameMethod(c, loc) ==
    [url |-> ResolveUrl(loc, c.url), redirects |-> c.redirects + 1, method |-> c.method]

\* redirects++; method = 'HEAD'
FollowRedirect(c, loc) ==
    [url |-> ResolveUrl(loc, c.url), redirects |-> c.redirects + 1, method |-> "HEAD"]

\* the redirect limit tested before the Location is resolved
CheckUrlBodyLimitFirst(c, last) ==
    IF ~last.ok THEN Return(c.url, FALSE, ErrorReason(last))
    ELSE IF last.statusCode >= 200 /\ last.statusCode < 300 THEN Return(c.url, TRUE, "")
    ELSE IF FallsBackToGet(last.statusCode, c.method) THEN Continue([c EXCEPT !.method = "GET"])
    ELSE IF IsRedirect(last) THEN
        IF c.redirects >= MAX_REDIRECTS
        THEN Return(c.url, FALSE, "too many redirects")
        ELSE IF UrlThrows(last.location)
        THEN Return(c.url, FALSE, "invalid redirect location")
        ELSE Continue(FollowRedirect(c, last.location))
    ELSE Return(c.url, FALSE, HttpReason(last.statusCode))

\* the loop body after `last = await requestOnce(...)`, lines 60-84
CheckUrlBody(c, last) ==
    IF ~last.ok THEN Return(c.url, FALSE, ErrorReason(last))
    ELSE IF last.statusCode >= 200 /\ last.statusCode < 300 THEN Return(c.url, TRUE, "")
    ELSE IF FallsBackToGet(last.statusCode, c.method) THEN Continue([c EXCEPT !.method = "GET"])
    ELSE IF IsRedirect(last) THEN
        IF UrlThrows(last.location)
        THEN Return(c.url, FALSE, "invalid redirect location")
        ELSE Continue(FollowRedirect(c, last.location))
    ELSE Return(c.url, FALSE, HttpReason(last.statusCode))

\* the comparison off by one: one redirect fewer is followed
LoopConditionStrict(c) == c.redirects < MAX_REDIRECTS

\* the comparison off by one: one redirect more is followed
LoopConditionLoose(c) == c.redirects <= MAX_REDIRECTS + 1

\* while (redirects <= MAX_REDIRECTS)
LoopCondition(c) == c.redirects <= MAX_REDIRECTS

\* the loop head, line 58, and the call of requestOnce on line 59: the next
\* probe ("request"), the rejection of requestOnce ("throw"), or the return
\* of line 86
CheckUrlLoop(c) ==
    IF LoopCondition(c)
    THEN IF RequestThrows(c.url)
         THEN [op |-> "throw", result |-> NoResult, c |-> c]
         ELSE [op |-> "request", result |-> NoResult, c |-> c]
    ELSE Return(c.url, FALSE, "too many redirects")

\* checkUrl from one answer to its next suspension or its end
CheckUrlStep(c, last) ==
    LET b == CheckUrlBody(c, last)
    IN  IF b.op = "continue" THEN CheckUrlLoop(b.c) ELSE b

(***************************************************************************)
(* State shared by the limiter, the throttle and the tasks.  The operators *)
(* below take and return the bundle S = [limiter, throttle, task].         *)
(***************************************************************************)
NoTask == [st |-> "none", c |-> CheckUrlInit(buildUrlFromName), result |-> NoResult]

\* before lines 150-151 run there is neither limiter nor throttle
NoLimiter == [made |-> FALSE, activeCount |-> 0, queue |-> <<>>]
NoThrottle == [made |-> FALSE, lastStart |-> 0, chain |-> <<>>, sleeping |-> FALSE, wake |-> 0]

\* pLimit(concurrency): let activeCount = 0; const queue = []
pLimit == [made |-> TRUE, activeCount |-> 0, queue |-> <<>>]

\* makeStartThrottler(minIntervalMs): let lastStart = 0; let chain = Promise.resolve()
makeStartThrottler ==
    [made |-> TRUE, lastStart |-> 0, chain |-> <<>>, sleeping |-> FALSE, wake |-> 0]

\* the new caller put ahead of those waiting
WaitForTurnFirst(S, r) ==
    [S EXCEPT !.throttle.chain = <<r>> \o @, !.task[r].st = "turn"]

\* waitForTurn(), called by task r: chain = chain.then(...)
WaitForTurn(S, r) ==
    [S EXCEPT !.throttle.chain = Append(@, r), !.task[r].st = "turn"]

\* the comparison off by one: a slot more than `concurrency`
LimiterFullOffByOne(l) == l.activeCount > MAX_CONCURRENCY

\* if (activeCount >= concurrency) return
LimiterFull(l) == l.activeCount >= MAX_CONCURRENCY

\* pLimit's next(): admits the head of the queue and calls its fn, which
\* calls waitForTurn (line 158)
LimiterNext(S) ==
    IF Len(S.limiter.queue) = 0 THEN S
    ELSE IF LimiterFull(S.limiter) THEN S
    ELSE WaitForTurn(
            [S EXCEPT !.limiter.activeCount = @ + 1, !.limiter.queue = Tail(@)],
            Head(S.limiter.queue))

\* limiter(fn), line 99: queue.push({ fn, resolve, reject }); next()
Limit(S, r) ==
    LimiterNext([S EXCEPT !.limiter.queue = Append(@, r), !.task[r].st = "queued"])

\* the handlers without the activeCount--
ReleaseSlotNever(l) == l

\* activeCount-- of the handlers on line 97
ReleaseSlot(l) == [l EXCEPT !.activeCount = @ - 1]

\* the handlers without their call of next()
LimiterSettleNoNext(S) == [S EXCEPT !.limiter = ReleaseSlot(@)]

\* line 97 after fn() settled: activeCount--; resolve(v) or reject(e); next()
LimiterSettle(S) == LimiterNext([S EXCEPT !.limiter = ReleaseSlot(@)])

\* a slice one record too long
BatchTooLong(list, k) == SubSeq(list, k + 1, Min(k + BATCH_SIZE + 1, Len(list)))

\* list.slice(i, i + BATCH_SIZE), as record numbers
Batch(list, k) == SubSeq(list, k + 1, Min(k + BATCH_SIZE, Len(list)))

\* batch.map((g) => limiter(...)), lines 155-165
RECURSIVE SubmitBatch(_, _)
SubmitBatch(S, batch) ==
    IF batch = <<>> THEN S ELSE SubmitBatch(Limit(S, Head(batch)), Tail(batch))

\* const list = Array.isArray(json.galaxies) ? json.galaxies : []
List == IF dataset.kind = "array" THEN dataset.galaxies ELSE <<>>

\* the empty list is let through
IsEmptyNever(list) == Len(list) < 0

\* if (list.length === 0)
IsEmpty(list) == Len(list) = 0

Bundle == [limiter |-> limiter, throttle |-> throttle, task |-> task]

Exited == pc \in {"exitError", "exitEmpty", "exitInvalid", "exitOk"}

\* one call of requestOnce at the present time
NoteRequest == lastRequest' = now

Init ==
    /\ dataset \in Datasets
    /\ pc = "start"
    /\ exitCode = -1
    /\ i = 0
    /\ completed = 0
    /\ results = <<>>
    /\ limiter = NoLimiter
    /\ throttle = NoThrottle
    /\ task = [r \in 1..Len(List) |-> NoTask]
    /\ now = Epoch
    /\ pauseWake = 0
    /\ lastRequest = -1
    /\ trace = <<>>

(***************************************************************************)
(* main (validate-links.js:126-192)                                        *)
(***************************************************************************)
\* readFileSync or JSON.parse throws: main().catch, lines 189-192
StartFails ==
    /\ pc = "start"
    /\ dataset.kind = "unreadable"
    /\ pc' = "exitError"
    /\ exitCode' = 1
    /\ UNCHANGED <<dataset, i, completed, results, limiter, throttle, task, now,
                   pauseWake, lastRequest, trace>>

\* if (list.length === 0) process.exit(1), lines 130-133
StartEmpty ==
    /\ pc = "start"
    /\ dataset.kind # "unreadable"
    /\ IsEmpty(List)
    /\ pc' = "exitEmpty"
    /\ exitCode' = 1
    /\ UNCHANGED <<dataset, i, completed, results, limiter, throttle, task, now,
                   pauseWake, lastRequest, trace>>

\* lines 134-166: the limiter and the throttle are made and the first batch
\* is handed to the limiter, up to `await Promise.all(tasks)`
StartRun ==
    /\ pc = "start"
    /\ dataset.kind # "unreadable"
    /\ ~IsEmpty(List)
    /\ LET S == SubmitBatch([limiter |-> pLimit, throttle |-> makeStartThrottler,
                             task |-> task], Batch(List, 0))
       IN  /\ limiter' = S.limiter
           /\ throttle' = S.throttle
           /\ task' = S.task
    /\ i' = 0
    /\ completed' = 0
    /\ results' = <<>>
    /\ pc' = "awaitBatch"
    /\ UNCHANGED <<dataset, exitCode, now, pauseWake, lastRequest, trace>>

(***************************************************************************)
(* A task after its throttle turn: .then(() => checkUrl(url)).then(r =>    *)
(* ...) of lines 159-164, then the limiter's handlers of line 97, then     *)
(* main's await of Promise.all.  `out` is what checkUrl did: it called     *)
(* requestOnce and waits for the answer, it returned, or it threw.         *)
(***************************************************************************)
\* fn() fulfilled with { id, name, url, ...r }
Fulfil(S, r, result) ==
    LimiterSettle([S EXCEPT !.task[r].st = "fulfilled", !.task[r].result = result])

\* fn() rejected
Reject(S, r) == LimiterSettle([S EXCEPT !.task[r].st = "rejected"])

Proceed(S, r, out) ==
    /\ LET T == CASE out.op = "request" ->
                       [S EXCEPT !.task[r].st = "probing", !.task[r].c = out.c]
                  [] out.op = "return" -> Fulfil(S, r, out.result)
                  [] OTHER -> Reject(S, r)
       IN  /\ limiter' = T.limiter
           /\ throttle' = T.throttle
           /\ task' = T.task
    /\ IF out.op = "request" THEN NoteRequest
       ELSE UNCHANGED <<lastRequest>>
    \* completed++, line 161
    /\ completed' = IF out.op = "return" THEN completed + 1 ELSE completed
    \* a rejected task rejects Promise.all and main: main().catch, lines 189-192
    /\ pc' = IF out.op = "throw" THEN "exitError" ELSE pc
    /\ exitCode' = IF out.op = "throw" THEN 1 ELSE exitCode

(***************************************************************************)
(* makeStartThrottler's waitForTurn callback (validate-links.js:112-121)   *)
(***************************************************************************)
\* the wait without the interval
WaitNoInterval(t) == Max(0, t.lastStart - now)

\* const wait = Math.max(0, lastStart + minIntervalMs - now)
Wait(t) == Max(0, t.lastStart + MIN_START_INTERVAL_MS - now)

\* the jitters that differ at the clock's resolution: the least and the greatest
Jitters == {0, JITTER_RANGE - 1}

\* lastStart = Date.now(): the head of the chain has its turn
TakeTurn(t) ==
    [t EXCEPT !.lastStart = now, !.chain = Tail(@), !.sleeping = FALSE]

\* wait > 0: await sleep(wait + jitter)
ThrottleSleep ==
    /\ ~Exited
    /\ Len(throttle.chain) > 0
    /\ ~throttle.sleeping
    /\ Wait(throttle) > 0
    /\ \E jitter \in Jitters :
          throttle' = [throttle EXCEPT !.sleeping = TRUE,
                                       !.wake = now + Wait(throttle) + jitter]
    /\ UNCHANGED <<dataset, pc, exitCode, i, completed, results, limiter, task, now,
                   pauseWake, lastRequest, trace>>

\* the turn is taken and the task goes on to checkUrl
Grant ==
    LET r == Head(throttle.chain)
    IN  /\ Proceed([Bundle EXCEPT !.throttle = TakeTurn(@)], r,
                   CheckUrlLoop(CheckUrlInit(buildUrlFromName)))
        /\ UNCHANGED <<dataset, i, results, now, pauseWake, trace>>

\* wait = 0: no sleep
ThrottleGrant ==
    /\ ~Exited
    /\ Len(throttle.chain) > 0
    /\ ~throttle.sleeping
    /\ Wait(throttle) = 0
    /\ Grant

\* the sleep's timer fired
SleepElapsed(wake) == now >= wake

ThrottleWake ==
    /\ ~Exited
    /\ Len(throttle.chain) > 0
    /\ throttle.sleeping
    /\ SleepElapsed(throttle.wake)
    /\ Grant

(***************************************************************************)
(* requestOnce's answer arrives and checkUrl goes on (lines 59-86)         *)
(***************************************************************************)
ProbeAnswered(r, last) ==
    /\ ~Exited
    /\ pc # "checkUrl"
    /\ task[r].st = "probing"
    /\ Proceed(Bundle, r, CheckUrlStep(task[r].c, last))
    /\ UNCHANGED <<dataset, i, results, now, pauseWake>>

ProbeReturn ==
    /\ \E r \in DOMAIN task, last \in RunResponses : ProbeAnswered(r, last)
    /\ UNCHANGED trace

(***************************************************************************)
(* main after `await Promise.all(tasks)` (lines 166-187)                   *)
(***************************************************************************)
\* Promise.race in place of Promise.all
AnyFulfilled(batch) == \E k \in 1..Len(batch) : task[batch[k]].st = "fulfilled"

\* Promise.all(tasks) is fulfilled: every task of the batch is
AllFulfilled(batch) == \A k \in 1..Len(batch) : task[batch[k]].st = "fulfilled"

\* the results of the batch, the last task's first
BatchResultsReversed(batch) ==
    [k \in 1..Len(batch) |->
        [id |-> batch[Len(batch) + 1 - k],
         url |-> task[batch[Len(batch) + 1 - k]].result.url,
         valid |-> task[batch[Len(batch) + 1 - k]].result.valid,
         reason |-> task[batch[Len(batch) + 1 - k]].result.reason]]

\* batchResults: each task's { id, name, url, ...r }, in the order of `tasks`
BatchResults(batch) ==
    [k \in 1..Len(batch) |->
        [id |-> batch[k], url |-> task[batch[k]].result.url,
         valid |-> task[batch[k]].result.valid, reason |-> task[batch[k]].result.reason]]

\* the comparison off by one: the last, short batch is never run
MoreBatchesOffByOne == i + BATCH_SIZE + 1 < Len(List)

\* the comparison with <=: a pause after a full last batch
MoreBatchesOrEqual == i + BATCH_SIZE <= Len(List)

\* if (i + BATCH_SIZE < list.length)
MoreBatches == i + BATCH_SIZE < Len(List)

\* the filter without its negation
InvalidNegated(rs) == SelectSeq(rs, LAMBDA x : x.valid)

\* results.filter(r => !r.valid)
Invalid(rs) == SelectSeq(rs, LAMBDA x : ~x.valid)

\* lines 166-170: the batch is done and another follows
BatchDonePause ==
    /\ pc = "awaitBatch"
    /\ AllFulfilled(Batch(List, i))
    /\ MoreBatches
    /\ results' = results \o BatchResults(Batch(List, i))
    /\ pauseWake' = now + BATCH_PAUSE_MS
    /\ pc' = "pause"
    /\ UNCHANGED <<dataset, exitCode, i, completed, limiter, throttle, task, now,
                   lastRequest, trace>>

\* lines 166-184: the last batch is done and some link is invalid
BatchDoneInvalid ==
    /\ pc = "awaitBatch"
    /\ AllFulfilled(Batch(List, i))
    /\ ~MoreBatches
    /\ results' = results \o BatchResults(Batch(List, i))
    /\ Len(Invalid(results')) # 0
    /\ pc' = "exitInvalid"
    /\ exitCode' = 1
    /\ UNCHANGED <<dataset, i, completed, limiter, throttle, task, now, pauseWake,
                   lastRequest, trace>>

\* lines 166-187: the last batch is done and every link is valid
BatchDoneValid ==
    /\ pc = "awaitBatch"
    /\ AllFulfilled(Batch(List, i))
    /\ ~MoreBatches
    /\ results' = results \o BatchResults(Batch(List, i))
    /\ Len(Invalid(results')) = 0
    /\ pc' = "exitOk"
    /\ exitCode' = 0
    /\ UNCHANGED <<dataset, i, completed, limiter, throttle, task, now, pauseWake,
                   lastRequest, trace>>

\* sleep(BATCH_PAUSE_MS) elapsed: i += BATCH_SIZE and the next batch is
\* handed to the limiter (lines 153-166)
PauseDone ==
    /\ pc = "pause"
    /\ SleepElapsed(pauseWake)
    /\ i' = i + BATCH_SIZE
    /\ LET S == SubmitBatch(Bundle, Batch(List, i'))
       IN  /\ limiter' = S.limiter
           /\ throttle' = S.throttle
           /\ task' = S.task
    /\ pc' = "awaitBatch"
    /\ UNCHANGED <<dataset, exitCode, completed, results, now, pauseWake, lastRequest, trace>>

\* time passes
Tick ==
    /\ ~Exited
    /\ pc # "checkUrl"
    /\ now + TickMs <= Epoch + Horizon
    /\ now' = now + TickMs
    /\ UNCHANGED <<dataset, pc, exitCode, i, completed, results, limiter, throttle,
                   task, pauseWake, lastRequest, trace>>

Next ==
    \/ StartFails
    \/ StartEmpty
    \/ StartRun
    \/ ThrottleSleep
    \/ ThrottleGrant
    \/ ThrottleWake
    \/ ProbeReturn
    \/ BatchDonePause
    \/ BatchDoneInvalid
    \/ BatchDoneValid
    \/ PauseDone
    \/ Tick

Spec == Init /\ [][Next]_vars

(***************************************************************************)
(* One checkUrl call on its own (validate-links.js:52-87), under every     *)
(* sequence of answers; `trace` keeps the probes it made, in order, each   *)
(* with the answer it got.                                                 *)
(***************************************************************************)
NoAnswer == [ok |-> FALSE, error |-> "pending", statusCode |-> 0, location |-> NoLocation]

\* requestOnce(currentUrl, { method }) of line 59
Probe(c) == [method |-> c.method, url |-> c.url, redirects |-> c.redirects, last |-> NoAnswer]

AfterCheckUrl(out, tr) ==
    /\ task' = [task EXCEPT ![1] =
                  CASE out.op = "request" -> [@ EXCEPT !.st = "probing", !.c = out.c]
                    [] out.op = "return" -> [@ EXCEPT !.st = "fulfilled", !.result = out.result]
                    [] OTHER -> [@ EXCEPT !.st = "rejected"]]
    /\ trace' = IF out.op = "request" THEN Append(tr, Probe(out.c)) ELSE tr

InitCheckUrl ==
    /\ dataset = [kind |-> "array", galaxies |-> <<1>>]
    /\ pc = "checkUrl"
    /\ exitCode = -1
    /\ i = 0
    /\ completed = 0
    /\ results = <<>>
    /\ limiter = NoLimiter
    /\ throttle = NoThrottle
    /\ task = [r \in {1} |-> NoTask]
    /\ now = Epoch
    /\ pauseWake = 0
    /\ lastRequest = -1
    /\ trace = <<>>

\* checkUrl(url) is called: lines 54-59
CheckUrlCall ==
    /\ pc = "checkUrl"
    /\ task[1].st = "none"
    /\ AfterCheckUrl(CheckUrlLoop(CheckUrlInit(buildUrlFromName)), trace)
    /\ UNCHANGED <<dataset, pc, exitCode, i, completed, results, limiter, throttle,
                   now, pauseWake, lastRequest>>

\* the pending probe is answered: lines 59-86
CheckUrlAnswer ==
    /\ pc = "checkUrl"
    /\ task[1].st = "probing"
    /\ \E last \in Responses :
          AfterCheckUrl(CheckUrlStep(task[1].c, last),
                        [trace EXCEPT ![Len(trace)].last = last])
    /\ UNCHANGED <<dataset, pc, exitCode, i, completed, results, limiter, throttle,
                   now, pauseWake, lastRequest>>

NextCheckUrl ==
    \/ CheckUrlCall
    \/ CheckUrlAnswer

SpecCheckUrl == InitCheckUrl /\ [][NextCheckUrl]_vars

(***************************************************************************)
(* Properties of a whole run (Spec)                                        *)
(***************************************************************************)
Records == 1..Len(List)

\* the resolutions the limiter admitted that have not settled: they wait for
\* their throttle turn or probe
InFlight == {r \in DOMAIN task : task[r].st \in {"turn", "probing"}}

\* main reached its verdict, lines 173-187
Verdict == pc \in {"exitInvalid", "exitOk"}

\* the batch (0, 1, ...) of record r
BatchOf(r) == (r - 1) \div BATCH_SIZE

\* C1: at every moment at most MAX_CONCURRENCY resolutions are admitted by
\* the limiter and not yet settled, and the limiter's activeCount is their
\* number.
C1_ConcurrencyBound ==
    /\ Cardinality(InFlight) <= MAX_CONCURRENCY
    /\ limiter.activeCount = Cardinality(InFlight)

\* every slot is taken, one resolution probes, another waits its turn and a
\* third waits in the limiter's queue
C1_Witness ==
    /\ Cardinality(InFlight) = MAX_CONCURRENCY
    /\ Len(limiter.queue) > 0
    /\ \E r \in InFlight : task[r].st = "probing"
    /\ \E r \in InFlight : task[r].st = "turn"

\* C2: at the verdict of a run over a non-empty list, results holds exactly
\* one result per record, completed equals total, and the invalid and the
\* valid results together are total.
C2_OneResultPerRecord ==
    Verdict =>
        /\ Len(results) = Len(List)
        /\ \A r \in Records : Cardinality({k \in 1..Len(results) : results[k].id = r}) = 1
        /\ completed = Len(List)
        /\ Len(Invalid(results)) + Len(SelectSeq(results, LAMBDA x : x.valid)) = Len(List)

\* a verdict over several batches with valid and invalid links
C2_Witness ==
    /\ Verdict
    /\ Len(List) > BATCH_SIZE
    /\ Len(Invalid(results)) > 0
    /\ Len(Invalid(results)) < Len(results)

\* C3: the process exits with 0 exactly when the list is not empty and every
\* record's resolution ended valid; it exits with 1 when some resolution
\* ended invalid, when the list is empty, and when an error escaped main.
C3_ExitStatus ==
    /\ ~Exited => exitCode = -1
    /\ Exited =>
        /\ exitCode \in {0, 1}
        /\ exitCode = 0 <=>
              /\ Len(List) > 0
              /\ \A r \in Records : task[r].st = "fulfilled" /\ task[r].result.valid
        /\ (\E r \in Records : task[r].st = "fulfilled" /\ ~task[r].result.valid)
              => exitCode = 1
        /\ Len(List) = 0 => exitCode = 1
        /\ pc = "exitError" => exitCode = 1

\* a run over several batches that ended with status 0
C3_Witness ==
    /\ pc = "exitOk"
    /\ exitCode = 0
    /\ Len(List) > BATCH_SIZE

\* record r got an invalid verdict in this step
GotInvalid(r) ==
    /\ task[r].st # "fulfilled"
    /\ task'[r].st = "fulfilled"
    /\ ~task'[r].result.valid

C5_BatchOrder ==
    \A r, q \in Records :
        (BatchOf(r) < BatchOf(q) /\ task[q].st # "none") => task[r].st = "fulfilled"

\* a record of the second batch is probing
C5_Witness ==
    \E q \in Records : BatchOf(q) = 1 /\ task[q].st = "probing"

\* record r's task called requestOnce in this step
RequestStarted(r) == task'[r].st = "probing" /\ task'[r] # task[r]

\* C6: a call of requestOnce is at least MIN_START_INTERVAL_MS less the
\* jitter range after the call of requestOnce before it, whichever records
\* and hops the two belong to.
C6_RequestSpacing ==
    [][\A r \in Records :
          (RequestStarted(r) /\ lastRequest # -1)
              => now - lastRequest >= MIN_START_INTERVAL_MS - JITTER_RANGE]_vars

\* C10: with an empty record list (or a `galaxies` that is no array) the run
\* exits with status 1, and neither the limiter nor the throttle is made nor
\* any probe sent.
C10_EmptyDataset ==
    (dataset.kind # "unreadable" /\ Len(List) = 0) =>
        /\ ~limiter.made
        /\ ~throttle.made
        /\ lastRequest = -1
        /\ pc \in {"start", "exitEmpty"}
        /\ pc = "exitEmpty" => exitCode = 1

\* the run over a `galaxies` that is no array has exited
C10_Witness ==
    /\ dataset.kind = "notArray"
    /\ pc = "exitEmpty"
    /\ exitCode = 1

(***************************************************************************)
(* Properties of one checkUrl call (SpecCheckUrl)                          *)
(***************************************************************************)
\* the k-th probe was answered by a redirect that checkUrl could resolve
RedirectAt(k) == IsRedirect(trace[k].last) /\ ~UrlThrows(trace[k].last.location)

\* the probes answered by such a redirect
Redirected == {k \in 1..Len(trace) : RedirectAt(k)}

\* checkUrl returned this verdict
Returned(valid, reason) ==
    /\ task[1].st = "fulfilled"
    /\ task[1].result.valid = valid
    /\ task[1].result.reason = reason

\* C7: when the server answers k redirects in a row and then a 2xx, checkUrl
\* returns valid (and k <= MAX_REDIRECTS); when it answers more than
\* MAX_REDIRECTS redirects in a row, checkUrl returns invalid with "too many
\* redirects" after MAX_REDIRECTS + 1 probes; and it returns "too many
\* redirects" in no other case.
C7_RedirectLimit ==
    /\ \A k \in 0..Len(trace) :
          (\A j \in 1..k : RedirectAt(j)) =>
              /\ (/\ k < Len(trace)
                  /\ trace[k + 1].last.ok
                  /\ trace[k + 1].last.statusCode = 200)
                    => (k <= MAX_REDIRECTS /\ Len(trace) = k + 1 /\ Returned(TRUE, ""))
              /\ k > MAX_REDIRECTS
                    => (Len(trace) = MAX_REDIRECTS + 1
                        /\ Returned(FALSE, "too many redirects"))
    /\ (task[1].st = "fulfilled" /\ task[1].result.reason = "too many redirects")
          => Cardinality(Redirected) = MAX_REDIRECTS + 1

\* MAX_REDIRECTS + 1 redirects in a row, each answering a HEAD probe
C7_Witness ==
    /\ Len(trace) = MAX_REDIRECTS + 1
    /\ \A k \in 1..Len(trace) : RedirectAt(k) /\ trace[k].method = "HEAD"
    /\ Returned(FALSE, "too many redirects")

\* the k-th probe was answered 403 or 405
RefusedAt(k) == trace[k].last.ok /\ trace[k].last.statusCode \in {403, 405}

\* C8: a HEAD probe answered 403 or 405 is followed by a GET probe of the
\* same URL with the same redirect count; a GET probe answered 403 or 405 is
\* the last probe and checkUrl returns invalid with "HTTP 403" or "HTTP 405";
\* no URL is probed with GET twice.
C8_OneFallbackPerHop ==
    /\ \A k \in 1..Len(trace) :
          RefusedAt(k) =>
              IF trace[k].method = "HEAD"
              THEN /\ k < Len(trace)
                   /\ trace[k + 1].method = "GET"
                   /\ trace[k + 1].url = trace[k].url
                   /\ trace[k + 1].redirects = trace[k].redirects
              ELSE /\ k = Len(trace)
                   /\ task[1].st = "fulfilled"
                   /\ task[1].result =
                        [url |-> trace[k].url, valid |-> FALSE,
                         reason |-> IF trace[k].last.statusCode = 403
                                    THEN "HTTP 403" ELSE "HTTP 405"]
    /\ \A j, k \in 1..Len(trace) :
          (j < k /\ trace[j].url = trace[k].url /\ trace[j].method = "GET")
              => trace[k].method # "GET"

\* HEAD was answered 403, the GET that followed 405, and that was the end
C8_Witness ==
    /\ Len(trace) = 2
    /\ trace[1].method = "HEAD" /\ trace[1].last.statusCode = 403
    /\ trace[2].method = "GET" /\ trace[2].last.statusCode = 405
    /\ Returned(FALSE, "HTTP 405")

\* C9: the probe after a followed redirect is a HEAD probe of the resolved
\* URL with the redirect count one higher, whether the redirect answered a
\* HEAD or a GET probe.
C9_HeadAfterRedirect ==
    \A k \in 1..(Len(trace) - 1) :
        RedirectAt(k) =>
            /\ trace[k + 1].method = "HEAD"
            /\ trace[k + 1].url = ResolveUrl(trace[k].last.location, trace[k].url)
            /\ trace[k + 1].url # trace[k].url
            /\ trace[k + 1].redirects = trace[k].redirects + 1

\* every origin refuses HEAD: HEAD, GET, redirect, HEAD, GET
C9_Witness ==
    /\ Len(trace) = 4
    /\ trace[1].method = "HEAD" /\ RefusedAt(1)
    /\ trace[2].method = "GET" /\ RedirectAt(2)
    /\ trace[3].method = "HEAD" /\ RefusedAt(3)
    /\ trace[4].method = "GET" /\ trace[4].redirects = 1

\* the k-th probe has its answer
Answered(k) == k < Len(trace) \/ task[1].st # "probing"

\* the k-th probe was answered by a 3xx with a Location at the redirect limit
RedirectAtLimit(k) ==
    /\ Answered(k)
    /\ IsRedirect(trace[k].last)
    /\ trace[k].redirects >= MAX_REDIRECTS

\* C14 as claimed: a 3xx with a Location received with redirects >=
\* MAX_REDIRECTS gives "too many redirects", whether or not the Location can
\* be resolved.
C14_LimitBeforeResolution ==
    \A k \in 1..Len(trace) :
        RedirectAtLimit(k) => (k = Len(trace) /\ Returned(FALSE, "too many redirects"))

\* C14 as amended: the Location is resolved first.  At the redirect limit a
\* Location that new URL() rejects gives "invalid redirect location", and any
\* other Location gives "too many redirects"; either way no probe follows.
C14_ResolutionBeforeLimit ==
    \A k \in 1..Len(trace) :
        RedirectAtLimit(k) =>
            /\ k = Len(trace)
            /\ IF trace[k].last.location = "http://["
               THEN Returned(FALSE, "invalid redirect location")
               ELSE Returned(FALSE, "too many redirects")

\* a redirect at the limit whose Location cannot be resolved
C14_Witness ==
    /\ Len(trace) = MAX_REDIRECTS + 1
    /\ RedirectAtLimit(Len(trace))
    /\ trace[Len(trace)].last.location = "http://["
    /\ Returned(FALSE, "invalid redirect location")

\* C15: a probe answered ok:false, on any hop and with either method, is the
\* last probe, and checkUrl returns invalid with the error's message (with
\* "request failed" when the error has none).
C15_ErrorIsTerminal ==
    \A k \in 1..Len(trace) :
        (Answered(k) /\ ~trace[k].last.ok) =>
            /\ k = Len(trace)
            /\ task[1].st = "fulfilled"
            /\ task[1].result =
                 [url |-> trace[k].url, valid |-> FALSE,
                  reason |-> IF trace[k].last.error = ""
                             THEN "request failed" ELSE trace[k].last.error]

\* the GET fallback on the hop after a redirect timed out
C15_Witness ==
    /\ Len(trace) > 2
    /\ trace[Len(trace)].method = "GET"
    /\ trace[Len(trace)].redirects > 0
    /\ trace[Len(trace)].last.error = "timeout"
    /\ Returned(FALSE, "timeout")

\* the URLs probed
Probed == {trace[k].url : k \in 1..Len(trace)}

\* the probes of URL u, in order
ProbesOf(u) == SelectSeq(trace, LAMBDA p : p.url = u)

\* C20: one checkUrl call makes at most 2 * (MAX_REDIRECTS + 1) probes: it
\* probes at most MAX_REDIRECTS + 1 URLs, each at most twice, first with
\* HEAD and then, if at all, with GET.
C20_ProbeBound ==
    /\ Len(trace) <= 2 * (MAX_REDIRECTS + 1)
    /\ Cardinality(Probed) <= MAX_REDIRECTS + 1
    /\ \A u \in Probed :
          /\ Len(ProbesOf(u)) <= 2
          /\ ProbesOf(u)[1].method = "HEAD"
          /\ Len(ProbesOf(u)) = 2 => ProbesOf(u)[2].method = "GET"

\* the most probes: every URL probed with HEAD and with GET, and checkUrl over
C20_Witness ==
    /\ Len(trace) = 2 * (MAX_REDIRECTS + 1)
    /\ Cardinality(Probed) = MAX_REDIRECTS + 1
    /\ task[1].st = "fulfilled"

(***************************************************************************)
(* buildUrlFromName on its own (validate-links.js:31-35).  A string is the *)
(* sequence of its characters; BASE is kept as one piece.                  *)
(***************************************************************************)
BASE == <<"https://nomanssky.fandom.com/wiki/">>

\* the characters of a name: the space, the underscore and another one
Chars == {" ", "_", "a"}

\* a record's name: null or missing, or a string
Names ==
    {[kind |-> "null", galaxies |-> <<>>]}
    \cup {[kind |-> "text", galaxies |-> n] :
            n \in UNION {[1..k -> Chars] : k \in 0..MaxNameLen}}

\* name || ''
OrEmpty(name) == IF name.kind = "null" \/ name.galaxies = <<>> THEN <<>> ELSE name.galaxies

\* str.split(' '): the pieces between the spaces, empty pieces kept
RECURSIVE Split(_)
Split(str) ==
    IF str = <<>> THEN << <<>> >>
    ELSE LET rest == Split(Tail(str))
         IN  IF Head(str) = " "
             THEN << <<>> >> \o rest
             ELSE << <<Head(str)>> \o Head(rest) >> \o Tail(rest)

\* pieces.join('_')
RECURSIVE Join(_)
Join(pieces) ==
    IF Len(pieces) = 1 THEN Head(pieces)
    ELSE Head(pieces) \o <<"_">> \o Join(Tail(pieces))

\* str.replace(' ', '_'), which replaces the first space only
RECURSIVE ReplaceFirst(_)
ReplaceFirst(str) ==
    IF str = <<>> THEN <<>>
    ELSE IF Head(str) = " " THEN <<"_">> \o Tail(str)
    ELSE <<Head(str)>> \o ReplaceFirst(Tail(str))

\* the suffix with only the first space replaced
SuffixFirstOnly(name) == ReplaceFirst(OrEmpty(name))

\* const suffix = (name || '').split(' ').join('_')
Suffix(name) == Join(Split(OrEmpty(name)))

\* return BASE + suffix
BuildUrlFromName(name) == BASE \o Suffix(name)

InitBuildUrl ==
    /\ dataset \in Names
    /\ pc = "buildUrl"
    /\ exitCode = -1
    /\ i = 0
    /\ completed = 0
    /\ results = <<>>
    /\ limiter = NoLimiter
    /\ throttle = NoThrottle
    /\ task = <<>>
    /\ now = Epoch
    /\ pauseWake = 0
    /\ lastRequest = -1
    /\ trace = <<>>

\* buildUrlFromName(name) is called; trace keeps what it returned
BuildUrlCall ==
    /\ pc = "buildUrl"
    /\ trace = <<>>
    /\ trace' = <<BuildUrlFromName(dataset)>>
    /\ UNCHANGED <<dataset, pc, exitCode, i, completed, results, limiter, throttle,
                   task, now, pauseWake, lastRequest>>

NextBuildUrl == BuildUrlCall

SpecBuildUrl == InitBuildUrl /\ [][NextBuildUrl]_vars

\* C13: buildUrlFromName returns BASE followed by the name with every space
\* replaced by an underscore and every other character kept, in value and in
\* position; a null or missing name gives BASE alone.
C13_BuildUrl ==
    trace # <<>> =>
        LET url == trace[1]
            name == dataset.galaxies
        IN  /\ Len(url) = Len(BASE) + Len(name)
            /\ SubSeq(url, 1, Len(BASE)) = BASE
            /\ \A k \in 1..Len(name) :
                  url[Len(BASE) + k] = IF name[k] = " " THEN "_" ELSE name[k]
            /\ dataset.kind = "null" => url = BASE

\* a name with two spaces in a row, between other characters
C13_Witness ==
    /\ dataset = [kind |-> "text", galaxies |-> <<"a", " ", " ", "_">>]
    /\ trace = <<BASE \o <<"a", "_", "_", "_">> >>

(***************************************************************************)
(* The throttle on its own (validate-links.js:107-124): MaxCallers callers *)
(* call waitForTurn at any times; `trace` keeps the calls and the turns in *)
(* the order in which they happen.                                         *)
(***************************************************************************)
InitThrottle ==
    /\ dataset = [kind |-> "array", galaxies |-> [k \in 1..MaxCallers |-> k]]
    /\ pc = "throttle"
    /\ exitCode = -1
    /\ i = 0
    /\ completed = 0
    /\ results = <<>>
    /\ limiter = NoLimiter
    /\ throttle = makeStartThrottler
    /\ task = [r \in 1..MaxCallers |-> NoTask]
    /\ now = Epoch
    /\ pauseWake = 0
    /\ lastRequest = -1
    /\ trace = <<>>

\* a caller calls waitForTurn(), lines 111-123
ThrottleCall ==
    /\ pc = "throttle"
    /\ \E r \in DOMAIN task :
          /\ task[r].st = "none"
          /\ LET S == WaitForTurn(Bundle, r)
             IN  /\ throttle' = S.throttle
                 /\ task' = S.task
          /\ trace' = Append(trace, [ev |-> "call", r |-> r, at |-> now, slept |-> FALSE])
    /\ UNCHANGED <<dataset, pc, exitCode, i, completed, results, limiter, now,
                   pauseWake, lastRequest>>

\* lastStart = Date.now(), line 120: the caller's promise is resolved
TurnGranted ==
    LET r == Head(throttle.chain)
    IN  /\ throttle' = TakeTurn(throttle)
        /\ task' = [task EXCEPT ![r].st = "granted"]
        /\ trace' = Append(trace, [ev |-> "grant", r |-> r, at |-> now,
                                   slept |-> throttle.sleeping])
        /\ UNCHANGED <<dataset, pc, exitCode, i, completed, results, limiter, now,
                       pauseWake, lastRequest>>

\* wait = 0: no sleep
ThrottleTurnNow ==
    /\ pc = "throttle"
    /\ Len(throttle.chain) > 0
    /\ ~throttle.sleeping
    /\ Wait(throttle) = 0
    /\ TurnGranted

\* the sleep's timer fired
ThrottleTurnLater ==
    /\ pc = "throttle"
    /\ Len(throttle.chain) > 0
    /\ throttle.sleeping
    /\ SleepElapsed(throttle.wake)
    /\ TurnGranted

NextThrottle ==
    \/ ThrottleCall
    \/ ThrottleSleep
    \/ ThrottleTurnNow
    \/ ThrottleTurnLater
    \/ Tick

SpecThrottle == InitThrottle /\ [][NextThrottle]_vars

\* the calls of waitForTurn and the turns granted, each in order
Calls == SelectSeq(trace, LAMBDA e : e.ev = "call")
Grants == SelectSeq(trace, LAMBDA e : e.ev = "grant")

\* C11: the turns are granted in the order of the calls: the k-th turn goes
\* to the k-th caller.
C11_ThrottleFifo ==
    /\ Len(Grants) <= Len(Calls)
    /\ \A k \in 1..Len(Grants) : Grants[k].r = Calls[k].r

\* three callers called at once, not in the order of their numbers, and all
\* had their turn
C11_Witness ==
    /\ Len(trace) = 6
    /\ \A k \in 1..3 : trace[k].ev = "call" /\ trace[k].at = Epoch
    /\ trace[1].r = 2 /\ trace[2].r = 3 /\ trace[3].r = 1
    /\ Len(Grants) = 3

\* C18: each turn after the first is granted at least MIN_START_INTERVAL_MS
\* after the turn before it, lastStart is the time of the latest turn, and
\* the first turn is granted without a sleep.
C18_GrantSpacing ==
    /\ \A k \in 2..Len(Grants) : Grants[k].at >= Grants[k - 1].at + MIN_START_INTERVAL_MS
    /\ Len(Grants) > 0 =>
          /\ ~Grants[1].slept
          /\ throttle.lastStart = Grants[Len(Grants)].at

\* three turns, the second and the third after a sleep and the third exactly
\* MIN_START_INTERVAL_MS after the second
C18_Witness ==
    /\ Len(Grants) = 3
    /\ Grants[2].slept
    /\ Grants[3].slept
    /\ Grants[3].at = Grants[2].at + MIN_START_INTERVAL_MS

\* task r settles in this step: its fn() is fulfilled or rejected
Settles(r) ==
    /\ task[r].st \in {"turn", "probing"}
    /\ task'[r].st \in {"fulfilled", "rejected"}

\* C12: whenever the limiter's queue is non-empty, activeCount equals the
\* concurrency; and the step in which a task's fn() settles, fulfilled or
\* rejected, releases its slot once and admits the head of the queue: with a
\* non-empty queue the head leaves the queue, calls waitForTurn and takes the
\* slot over, with an empty queue activeCount drops by one.
C12_NoIdleSlot ==
    /\ [](Len(limiter.queue) > 0 => limiter.activeCount = MAX_CONCURRENCY)
    /\ [][\A r \in DOMAIN task : Settles(r) =>
             IF Len(limiter.queue) > 0
             THEN /\ limiter'.queue = Tail(limiter.queue)
                  /\ limiter'.activeCount = limiter.activeCount
                  /\ task[Head(limiter.queue)].st = "queued"
                  /\ task'[Head(limiter.queue)].st = "turn"
             ELSE /\ limiter'.queue = <<>>
                  /\ limiter'.activeCount = limiter.activeCount - 1]_vars

\* the first record's task was rejected while the second still ran and the
\* third was queued: the third has the slot and waits for its turn
C12_Witness ==
    /\ Len(List) >= 3
    /\ task[1].st = "rejected"
    /\ task[2].st \in {"turn", "probing"}
    /\ task[3].st = "turn"
    /\ limiter.queue = <<>>
    /\ limiter.activeCount = MAX_CONCURRENCY

\* the number of batches of the list
BatchCount == (Len(List) + BATCH_SIZE - 1) \div BATCH_SIZE

\* C16: a pause begins only when every task of the current batch is
\* fulfilled and another batch follows; the loop moves on to the next batch
\* only out of a pause, one batch per pause; and the verdict is reached
\* straight from the wait for the last batch, after BatchCount - 1 such
\* moves: there are exactly BatchCount - 1 pauses and none after the last batch.
C16_PausesBetweenBatches ==
    /\ [][(pc # "pause" /\ pc' = "pause") =>
             /\ pc = "awaitBatch"
             /\ AllFulfilled(Batch(List, i))
             /\ i \div BATCH_SIZE + 1 < BatchCount
             /\ i' = i]_vars
    /\ [][(pc = "pause" /\ pc' # "pause") =>
             (pc' = "awaitBatch" /\ i' = i + BATCH_SIZE)]_vars
    /\ [][i' # i => (pc = "pause" /\ i' = i + BATCH_SIZE)]_vars
    /\ [][(Verdict' /\ ~Verdict) => pc = "awaitBatch"]_vars
    /\ [](Verdict => i = BATCH_SIZE * (BatchCount - 1))

\* the verdict of a run of two batches: one pause, after the first
C16_Witness ==
    /\ Verdict
    /\ BatchCount = 2
    /\ i = BATCH_SIZE

(***************************************************************************)
(* The whole run with the order in which the tasks are fulfilled kept in   *)
(* `trace`: the record numbers, each appended when its checkUrl returned   *)
(* and the .then of lines 160-164 produced the task's result.              *)
(***************************************************************************)
ProbeReturnArrival ==
    \E r \in DOMAIN task, last \in RunResponses :
        /\ ProbeAnswered(r, last)
        /\ trace' = IF task'[r].st = "fulfilled" THEN Append(trace, r) ELSE trace

NextArrival ==
    \/ StartFails
    \/ StartEmpty
    \/ StartRun
    \/ ThrottleSleep
    \/ ThrottleGrant
    \/ ThrottleWake
    \/ ProbeReturnArrival
    \/ BatchDonePause
    \/ BatchDoneInvalid
    \/ BatchDoneValid
    \/ PauseDone
    \/ Tick

SpecArrival == Init /\ [][NextArrival]_vars

\* the place of record r in the order of arrival
Arrival(r) == CHOOSE k \in 1..Len(trace) : trace[k] = r

\* the records reported as invalid, in the order of the report (lines 173-179)
Reported == [k \in 1..Len(Invalid(results)) |-> Invalid(results)[k].id]

\* C17 as stated: the accumulated results are in the order of arrival: of
\* two results, the one whose record completed first comes first.
C17_ArrivalOrder ==
    \A a, b \in 1..Len(results) :
        a < b => Arrival(results[a].id) < Arrival(results[b].id)

\* C17: the accumulated results are in the order of the input, whatever the
\* order of arrival: the k-th result is the k-th record's, and so the
\* invalid links are reported in the order of the input.
C17_InputOrder ==
    /\ \A k \in 1..Len(results) : results[k].id = List[k]
    /\ \A a, b \in 1..Len(Reported) : a < b => Reported[a] < Reported[b]

\* the second record completed before the first, both links are invalid and
\* the batch is in the results
C17_Witness ==
    /\ Len(results) >= 2
    /\ Arrival(2) < Arrival(1)
    /\ ~results[1].valid
    /\ ~results[2].valid

(***************************************************************************)
(* The whole run with time that never stops and with the scheduling of     *)
(* Node's event loop: a callback that is ready runs, a timer that is due   *)
(* fires, and every request is answered.  Time passes by moving the origin *)
(* of the clock instead of `now`: every time kept in the state goes back   *)
(* by TickMs, down to the value from which the comparisons of line 114 and *)
(* of setTimeout no longer tell it apart.                                  *)
(***************************************************************************)
\* a time goes back by TickMs, but not below `floor`, the value from which
\* on no comparison with `now` tells it from an earlier one
Rebase(t, floor) == IF t <= floor THEN t ELSE Max(floor, t - TickMs)

\* the latest start that line 114 finds far enough in the past
LongAgo == Epoch - MIN_START_INTERVAL_MS

\* time passes: a timer is due from `now` on
TickRebase ==
    /\ ~Exited
    /\ pc # "checkUrl"
    /\ throttle' = [throttle EXCEPT !.lastStart = Rebase(@, LongAgo),
                                    !.wake = Rebase(@, Epoch)]
    /\ pauseWake' = Rebase(pauseWake, Epoch)
    /\ lastRequest' = Rebase(lastRequest, LongAgo)
    /\ UNCHANGED <<dataset, pc, exitCode, i, completed, results, limiter, task, now,
                   trace>>

NextLive ==
    \/ StartFails
    \/ StartEmpty
    \/ StartRun
    \/ ThrottleSleep
    \/ ThrottleGrant
    \/ ThrottleWake
    \/ ProbeReturn
    \/ BatchDonePause
    \/ BatchDoneInvalid
    \/ BatchDoneValid
    \/ PauseDone
    \/ TickRebase

\* main and the callbacks run when they can, the clock goes on, and every
\* request of every record is answered
Fairness ==
    /\ WF_vars(StartFails \/ StartEmpty \/ StartRun)
    /\ WF_vars(ThrottleSleep \/ ThrottleGrant \/ ThrottleWake)
    /\ WF_vars(BatchDonePause \/ BatchDoneInvalid \/ BatchDoneValid \/ PauseDone)
    /\ WF_vars(TickRebase)
    /\ \A r \in 1..MaxRecords :
          WF_vars(/\ r \in DOMAIN task
                  /\ \E last \in RunResponses : ProbeAnswered(r, last)
                  /\ UNCHANGED trace)

SpecLive == Init /\ [][NextLive]_vars /\ Fairness

\* a request threw instead of returning an answer
Threw == \E r \in DOMAIN task : task[r].st = "rejected"

\* C19: a run over a non-empty list in which every request is answered and
\* every sleep elapses reaches its verdict: the run ends with the report of
\* lines 173-186, unless a request threw instead of returning.
C19_Terminates ==
    (dataset.kind = "array" /\ ~IsEmpty(List)) => <>(Verdict \/ Threw)

\* the verdict of a run of MaxRecords records, all valid: records were
\* queued in the limiter, waited for the throttle and for the pause
C19_Witness ==
    /\ pc = "exitOk"
    /\ Len(List) > BATCH_SIZE
    /\ completed = Len(List)
    /\ Len(results) = Len(List)

====
